---- MODULE Spec2Model ----
(***************************************************************************)
(* State-machine model of en_words_bot: the storage tables (users, words,  *)
(* user_word_progress, task_history), the APScheduler job registry, the    *)
(* bot handlers and the scheduler tick (send_task_to_user).                *)
(*                                                                         *)
(* Time.  `now` stands for datetime.utcnow() and counts half-hours (30     *)
(* minutes, the smallest duration the code uses: the 0.5 h review band,    *)
(* the 30 minute default interval and the "dnd_30" button).  Durations     *)
(* the code gives in minutes or hours are converted by Minutes().          *)
(*                                                                         *)
(* Identity.  User.telegram_id is unique and User.id is its autoincrement  *)
(* key, so the two are in bijection; the model uses one number for both.   *)
(* Rows of the other tables are the elements of a sequence and a row's id  *)
(* is its index (autoincrement, rows are never deleted).                   *)
(*                                                                         *)
(* Every action is one whole handler (one coroutine run to completion).    *)
(* What a handler sends to Telegram is no state of the bot: the operator    *)
(* that computes a handler's result gives the messages beside the rows it   *)
(* writes (field messages).                                                *)
(***************************************************************************)
EXTENDS Integers, Sequences, FiniteSets, TLC

\* ------------------------------------------------------------------ bounds
\* Last instant of the clock (half-hours).
MaxTime == 1
\* Most task_history rows ever stored.
MaxTasks == 2
\* Most answers counted on one progress row.
MaxAttempts == 2
\* The instant at which the bot is started on a stored database.
StartedAt == 2

\* ------------------------------------------------------- program constants
\* SQL NULL / Python None of a nullable column.
NULL == -1
\* Optional[bool] column is_correct and the classifier's verdict.
None == "None"
True == "True"
False == "False"

CORRECT_ANSWER_BOOST == 15
INCORRECT_ANSWER_PENALTY == 10
MIN_KNOWLEDGE == 0
MAX_KNOWLEDGE == 100
\* User.interval_minutes column default.
default_interval_minutes == 30
\* get_review_interval's value when no band matches (168 h, in minutes).
FALLBACK_INTERVAL_MINUTES == 10080

\* Variant: the fourth band ends at 88, which leaves score 89 in no band.
REVIEW_INTERVALS_gap ==
    << [min_k |-> 0,  max_k |-> 20,  minutes |-> 30],
       [min_k |-> 21, max_k |-> 50,  minutes |-> 240],
       [min_k |-> 51, max_k |-> 70,  minutes |-> 1440],
       [min_k |-> 71, max_k |-> 88,  minutes |-> 4320],
       [min_k |-> 90, max_k |-> 100, minutes |-> 10080] >>

\* REVIEW_INTERVALS in insertion order; hours 0.5, 4, 24, 72, 168 as minutes.
REVIEW_INTERVALS ==
    << [min_k |-> 0,  max_k |-> 20,  minutes |-> 30],
       [min_k |-> 21, max_k |-> 50,  minutes |-> 240],
       [min_k |-> 51, max_k |-> 70,  minutes |-> 1440],
       [min_k |-> 71, max_k |-> 89,  minutes |-> 4320],
       [min_k |-> 90, max_k |-> 100, minutes |-> 10080] >>

\* base_words of cmd_start (word_en).
base_words == << "apple", "book", "cat" >>

\* task_types of send_task_to_user.
task_types ==
    { "translation_to_en", "translation_to_ru",
      "multiple_choice_en_to_ru", "multiple_choice_ru_to_en" }

\* ------------------------------------------------------------------ inputs
\* Telegram ids that reach the bot.
Users == {1, 2}
\* The learner who uses every command when the bot starts on an empty
\* database; the other account presses answer buttons, and "I woke up" on a
\* stored database.
Learners == {1}
\* option_index values of the pressed button.
OptionIndexes == {0, 1}
\* Words a learner types into the add-word dialogue.
TypedWords == { "dog" }
\* Buttons of get_dnd_duration_keyboard offered to the model (minutes).
DndMinutes == { 30 }
\* Kinds random.choice may draw in the model: one open-form, one closed-form.
DrawnTaskTypes == { "translation_to_en", "multiple_choice_en_to_ru" }
\* What the classifier call gives: a verdict, a reply without a boolean
\* is_correct, or an exception.
ClassifierResults == { True, False, None, "raise" }
\* Outcomes of an external call that can fail (generator, message delivery).
CallResults == { "ok", "raise" }

VARIABLES
    now,            \* datetime.utcnow(), in half-hours
    users,          \* table users: telegram id -> row
    words,          \* table words: sequence of word_en, id = index
    progress,       \* table user_word_progress: sequence of rows, id = index
    task_history,   \* table task_history: sequence of rows, id = index
    jobs,           \* scheduler job store: set of jobs
    running         \* handler and job coroutines suspended at an await

vars == << now, users, words, progress, task_history, jobs, running >>

\* The event loop runs each update and each job firing as its own coroutine;
\* the specifications whose steps are whole handlers keep none suspended.
Coroutines == { 1, 2 }

\* A slot with no coroutine in it.
Idle == [kind |-> "idle", pc |-> "done", user_id |-> 0, by_job |-> FALSE,
         task_id |-> 0, is_correct |-> None, user_answer |-> None,
         progress_id |-> 0, row |-> << >>, word_id |-> 0, last_word |-> 0]

NoneRunning == [c \in Coroutines |-> Idle]

\* ----------------------------------------------------------------- helpers
Min2(a, b) == IF a <= b THEN a ELSE b
Max2(a, b) == IF a >= b THEN a ELSE b
MinOf(S) == CHOOSE x \in S : \A y \in S : x <= y
MaxOf(S) == CHOOSE x \in S : \A y \in S : x >= y

\* timedelta(minutes=m) on the half-hour clock.
Minutes(m) == m \div 30

Msg(to, kind) == [to |-> to, kind |-> kind]

\* ------------------------------------------------------------ LearningConfig
MatchingBands(knowledge_percent) ==
    { i \in DOMAIN REVIEW_INTERVALS :
        /\ REVIEW_INTERVALS[i].min_k <= knowledge_percent
        /\ knowledge_percent <= REVIEW_INTERVALS[i].max_k }

\* The first band, in dictionary order, that holds the score; else the default.
get_review_interval(knowledge_percent) ==
    IF MatchingBands(knowledge_percent) = {}
    THEN FALLBACK_INTERVAL_MINUTES
    ELSE REVIEW_INTERVALS[MinOf(MatchingBands(knowledge_percent))].minutes

\* ------------------------------------------------------------------- users
NoUser == [exists |-> FALSE, is_active |-> FALSE,
           interval_minutes |-> default_interval_minutes,
           do_not_disturb_until |-> NULL]

create_user == [NoUser EXCEPT !.exists = TRUE]

\* The users table after get_or_create_user(telegram_id).
get_or_create_user(usrs, u) ==
    IF usrs[u].exists THEN usrs ELSE [usrs EXCEPT ![u] = create_user]

update_user_active_status(usrs, u, is_active) ==
    [usrs EXCEPT ![u].is_active = is_active]

set_do_not_disturb(usrs, u, minutes) ==
    [usrs EXCEPT ![u].do_not_disturb_until = now + Minutes(minutes)]

\* ------------------------------------------------------------------- words
get_word_by_en(wds, word_en) == { i \in DOMAIN wds : wds[i] = word_en }

\* The words table after get_or_create_word(word_en).
get_or_create_word(wds, word_en) ==
    IF get_word_by_en(wds, word_en) # {} THEN wds ELSE Append(wds, word_en)

\* ----------------------------------------------------------- progress rows
create_user_word_progress(user_id, word_id) ==
    [user_id |-> user_id, word_id |-> word_id,
     knowledge_percent |-> 0,
     last_reviewed_at |-> NULL,
     next_review_at |-> now,
     correct_answers_count |-> 0,
     total_answers_count |-> 0]

\* Ids of the rows get_user_word_progress's query matches.
get_user_word_progress(prg, user_id, word_id) ==
    { i \in DOMAIN prg : prg[i].user_id = user_id /\ prg[i].word_id = word_id }

\* Variant: the WHERE clause without the next_review_at condition.
ReviewFilter_nodue(p, user_id) ==
    p.user_id = user_id

\* WHERE clause of get_words_for_review.
ReviewFilter(p, user_id) ==
    /\ p.user_id = user_id
    /\ p.next_review_at <= now

\* ORDER BY of get_words_for_review: row i sorts strictly before row j.
\*   last_reviewed_at IS NULL DESC, knowledge_percent ASC, next_review_at ASC
\* A never-reviewed row still has the next_review_at of its creation, which is
\* utcnow() at the insert: of two such rows created within the same half-hour
\* the one inserted first (the smaller id) has the earlier timestamp.
\* Variant: the ORDER BY without its first key.
IsNullFlag_ignored(p) == 0

IsNullFlag(p) == IF p.last_reviewed_at = NULL THEN 1 ELSE 0

\* Variant: next_review_at ordered before knowledge_percent.
ReviewOrderBefore_duefirst(prg, i, j) ==
    LET p == prg[i]
        q == prg[j]
    IN  \/ IsNullFlag(p) > IsNullFlag(q)
        \/ /\ IsNullFlag(p) = IsNullFlag(q)
           /\ p.next_review_at < q.next_review_at
        \/ /\ IsNullFlag(p) = IsNullFlag(q)
           /\ p.next_review_at = q.next_review_at
           /\ \/ p.knowledge_percent < q.knowledge_percent
              \/ /\ p.knowledge_percent = q.knowledge_percent
                 /\ IsNullFlag(p) = 1
                 /\ i < j

ReviewOrderBefore(prg, i, j) ==
    LET p == prg[i]
        q == prg[j]
    IN  \/ IsNullFlag(p) > IsNullFlag(q)
        \/ /\ IsNullFlag(p) = IsNullFlag(q)
           /\ p.knowledge_percent < q.knowledge_percent
        \/ /\ IsNullFlag(p) = IsNullFlag(q)
           /\ p.knowledge_percent = q.knowledge_percent
           /\ \/ p.next_review_at < q.next_review_at
              \/ /\ p.next_review_at = q.next_review_at
                 /\ IsNullFlag(p) = 1
                 /\ i < j

\* get_words_for_review(session, user_id, limit=1): the ids the query may put
\* first.  Reviewed rows that tie on the whole ORDER BY key come in an order
\* SQL leaves open, so each of them is a possible result; the empty set is the
\* empty list.
get_words_for_review(user_id) ==
    LET due == { i \in DOMAIN progress : ReviewFilter(progress[i], user_id) }
    IN  { i \in due : \A j \in due : ~ReviewOrderBefore(progress, j, i) }

\* Variant: the boost and the penalty without min() and max().
NewKnowledge_unclamped(knowledge_percent, is_correct) ==
    IF is_correct = True
    THEN knowledge_percent + CORRECT_ANSWER_BOOST
    ELSE knowledge_percent - INCORRECT_ANSWER_PENALTY

\* knowledge_percent after an answer (`if is_correct:` is Python truthiness).
NewKnowledge(knowledge_percent, is_correct) ==
    IF is_correct = True
    THEN Min2(MAX_KNOWLEDGE, knowledge_percent + CORRECT_ANSWER_BOOST)
    ELSE Max2(MIN_KNOWLEDGE, knowledge_percent - INCORRECT_ANSWER_PENALTY)

\* Variant: the interval looked up with the score before the update.
NextReviewAt_oldscore(old_knowledge, new_knowledge) ==
    now + Minutes(get_review_interval(old_knowledge))

\* Variant: every answer is followed by the four-hour interval.
NextReviewAt_fourhours(old_knowledge, new_knowledge) == now + Minutes(240)

\* next_review_at: the interval of the score already updated.
NextReviewAt(old_knowledge, new_knowledge) ==
    now + Minutes(get_review_interval(new_knowledge))

\* Variant: correct_answers_count counted on every answer.
update_word_progress_countsall(p, is_correct) ==
    LET kp == NewKnowledge(p.knowledge_percent, is_correct)
    IN  [p EXCEPT
            !.total_answers_count = @ + 1,
            !.correct_answers_count = @ + 1,
            !.knowledge_percent = kp,
            !.last_reviewed_at = now,
            !.next_review_at = NextReviewAt(p.knowledge_percent, kp)]

\* The row update_word_progress commits.
update_word_progress(p, is_correct) ==
    LET kp == NewKnowledge(p.knowledge_percent, is_correct)
    IN  [p EXCEPT
            !.total_answers_count = @ + 1,
            !.correct_answers_count = IF is_correct = True THEN @ + 1 ELSE @,
            !.knowledge_percent = kp,
            !.last_reviewed_at = now,
            !.next_review_at = NextReviewAt(p.knowledge_percent, kp)]

\* -------------------------------------------------------------- task rows
IsTranslation(task_type) ==
    task_type \in { "translation_to_en", "translation_to_ru" }

\* What ai_service.generate_task returns when the call succeeds: the content
\* of the requested kind (options and correct_index for multiple choice).
generate_task(task_type) ==
    IF IsTranslation(task_type)
    THEN { [options |-> << >>, correct_index |-> NULL] }
    ELSE { [options |-> << "right", "wrong" >>, correct_index |-> 0] }

create_task_history(user_id, word_id, task_type, content) ==
    [user_id |-> user_id, word_id |-> word_id, task_type |-> task_type,
     options |-> content.options, correct_index |-> content.correct_index,
     user_answer |-> None, is_correct |-> None, ai_feedback |-> None]

update_task_history_answer(t, user_answer, is_correct, ai_feedback) ==
    [t EXCEPT !.user_answer = user_answer,
              !.is_correct = is_correct,
              !.ai_feedback = ai_feedback]

PendingTasks(user_id) ==
    { i \in DOMAIN task_history :
        /\ task_history[i].user_id = user_id
        /\ task_history[i].is_correct = None }

\* get_last_pending_task: ORDER BY created_at DESC LIMIT 1.  created_at is
\* utcnow() at insert and is read nowhere else, so the rows carry no such
\* field: the latest row is the one with the largest id.
\* The result is a set: empty for no row, else the one id.
get_last_pending_task(user_id) ==
    IF PendingTasks(user_id) = {} THEN {} ELSE { MaxOf(PendingTasks(user_id)) }


\* --------------------------------------------------------- scheduler tick
TickResult(th, msgs) == [task_history |-> th, messages |-> msgs]

\* Variant: the task row is stored before the generator is called.
IssueTask_storesfirst(user_id, progress_id, task_type, generator, delivery) ==
    { TickResult(
        Append(task_history,
               create_task_history(user_id, progress[progress_id].word_id,
                                   task_type, content)),
        IF generator = "ok" /\ delivery = "ok"
        THEN << Msg(user_id, "task") >>
        ELSE << Msg(user_id, "generation_error") >>)
      : content \in generate_task(task_type) }

\* The try block of send_task_to_user for the selected progress row: generate,
\* store the task, send the question; any exception sends the error notice.
IssueTask(user_id, progress_id, task_type, generator, delivery) ==
    IF generator = "raise"
    THEN { TickResult(task_history, << Msg(user_id, "generation_error") >>) }
    ELSE { TickResult(
             Append(task_history,
                    create_task_history(user_id, progress[progress_id].word_id,
                                        task_type, content)),
             IF delivery = "ok"
             THEN << Msg(user_id, "task") >>
             ELSE << Msg(user_id, "generation_error") >>)
           : content \in generate_task(task_type) }

\* Variant: no "do not disturb" check.
Suppressed_never(user) == FALSE

\* Variant: any stored "do not disturb" time suppresses, elapsed or not.
Suppressed_sticky(user) == user.do_not_disturb_until # NULL

\* "Do not disturb" check of send_task_to_user.
Suppressed(user) ==
    /\ user.do_not_disturb_until # NULL
    /\ now < user.do_not_disturb_until

\* Variant: nothing is sent when no word is due.
send_task_to_user_quiet(user_id, usrs) ==
    IF ~usrs[user_id].exists \/ ~usrs[user_id].is_active
    THEN { TickResult(task_history, << >>) }
    ELSE IF Suppressed(usrs[user_id])
    THEN { TickResult(task_history, << >>) }
    ELSE IF get_words_for_review(user_id) = {}
    THEN { TickResult(task_history, << >>) }
    ELSE UNION { IssueTask(user_id, p, tt, g, d) :
                   p \in get_words_for_review(user_id),
                   tt \in DrawnTaskTypes,
                   g \in CallResults,
                   d \in CallResults }

\* send_task_to_user(user_id, telegram_id) reading the users table usrs: every
\* result the tick can have, as the task_history it leaves and the messages it
\* sends.
send_task_to_user(user_id, usrs) ==
    IF ~usrs[user_id].exists \/ ~usrs[user_id].is_active
    THEN { TickResult(task_history, << >>) }
    ELSE IF Suppressed(usrs[user_id])
    THEN { TickResult(task_history, << >>) }
    ELSE IF get_words_for_review(user_id) = {}
    THEN { TickResult(task_history, << Msg(user_id, "all_repeated") >>) }
    ELSE UNION { IssueTask(user_id, p, tt, g, d) :
                   p \in get_words_for_review(user_id),
                   tt \in DrawnTaskTypes,
                   g \in CallResults,
                   d \in CallResults }

\* ------------------------------------------------------------ job registry
job_id(user_id) == user_id

\* Variant: nothing is removed.
remove_job_noop(jbs, id) == jbs

remove_job(jbs, id) == { j \in jbs : j.id # id }

\* scheduler.add_job(..., IntervalTrigger(minutes), id, replace_existing=True):
\* the first run is one interval from now.
add_job(jbs, id, interval_minutes) ==
    remove_job(jbs, id) \cup
        { [id |-> id, interval_minutes |-> interval_minutes,
           next_run_time |-> now + Minutes(interval_minutes)] }

\* The registry after start_user_scheduler, before its immediate tick.
start_user_scheduler(jbs, user_id, interval_minutes) ==
    add_job(remove_job(jbs, job_id(user_id)), job_id(user_id), interval_minutes)

\* Variant: the job is left in the registry.
stop_user_scheduler_keeps(jbs, user_id) == jbs

stop_user_scheduler(jbs, user_id) == remove_job(jbs, job_id(user_id))

\* Variant: no tick at registration; the first task waits for the trigger.
first_task_skipped(user_id, usrs) == { TickResult(task_history, << >>) }

\* The last statement of start_user_scheduler: the first task is sent at once,
\* by one tick that reads the users table usrs.
first_task(user_id, usrs) == send_task_to_user(user_id, usrs)

\* ---------------------------------------------------------- answer grading
\* The progress update both answer handlers do after storing the answer:
\* get_user_word_progress (scalar_one_or_none), update_word_progress when a
\* row was found.  ok is FALSE when the handler raises here (several rows, or
\* session.refresh(None) when there is none).
ApplyProgress(user_id, word_id, is_correct) ==
    LET ids == get_user_word_progress(progress, user_id, word_id)
    IN  IF Cardinality(ids) = 1
        THEN [progress |-> [progress EXCEPT ![MinOf(ids)] =
                               update_word_progress(@, is_correct)],
              ok |-> TRUE]
        ELSE [progress |-> progress, ok |-> FALSE]

AnswerResult(th, prg, msgs) ==
    [task_history |-> th, progress |-> prg, messages |-> msgs]

\* Variant: no answered-already check.
AlreadyAnswered_never(task) == FALSE

\* The answered-already check of handle_multiple_choice_answer.
AlreadyAnswered(task) == task.is_correct # None

\* Variant: no kind check; a text answers any pending task.
AcceptsText_any(task) == TRUE

\* The kind check of handle_text_answer.
AcceptsText(task) == IsTranslation(task.task_type)

\* Variant: an answer whose check raised is stored as a wrong answer.
text_answer_result_failclosed(u, verdict) ==
    LET pending == get_last_pending_task(u)
        task_id == MaxOf(pending)
        task == task_history[task_id]
        stored == IF verdict = "raise" THEN False ELSE verdict
        applied == ApplyProgress(u, task.word_id, stored)
    IN  IF pending = {}
        THEN AnswerResult(task_history, progress, << Msg(u, "no_active_task") >>)
        ELSE IF ~AcceptsText(task)
        THEN AnswerResult(task_history, progress, << Msg(u, "needs_choice") >>)
        ELSE AnswerResult(
               [task_history EXCEPT ![task_id] =
                   update_task_history_answer(@, "text", stored, "feedback")],
               applied.progress,
               IF ~applied.ok \/ verdict = "raise"
               THEN << Msg(u, "check_error") >>
               ELSE IF verdict = True THEN << Msg(u, "correct") >>
               ELSE << Msg(u, "not_quite") >>)

\* handle_text_answer for a text of user u, the classifier giving verdict:
\* the rows it leaves and the reply.
text_answer_result(u, verdict) ==
    LET pending == get_last_pending_task(u)
        task_id == MaxOf(pending)
        task == task_history[task_id]
        applied == ApplyProgress(u, task.word_id, verdict)
    IN  IF pending = {}
        THEN AnswerResult(task_history, progress, << Msg(u, "no_active_task") >>)
        ELSE IF ~AcceptsText(task)
        THEN AnswerResult(task_history, progress, << Msg(u, "needs_choice") >>)
        ELSE IF verdict = "raise"
        THEN AnswerResult(task_history, progress, << Msg(u, "check_error") >>)
        ELSE AnswerResult(
               [task_history EXCEPT ![task_id] =
                   update_task_history_answer(@, "text", verdict, "feedback")],
               applied.progress,
               IF ~applied.ok THEN << Msg(u, "check_error") >>
               ELSE IF verdict = True THEN << Msg(u, "correct") >>
               ELSE << Msg(u, "not_quite") >>)

\* is_correct = (selected_index == correct_index)
ChoiceIsCorrect(task, selected_index) ==
    IF selected_index = task.correct_index THEN True ELSE False

\* handle_multiple_choice_answer for the button answer_<task_id>_<index>
\* pressed by user u: the rows it leaves and the reply.
choice_answer_result(u, task_id, selected_index) ==
    LET task == task_history[task_id]
        is_correct == ChoiceIsCorrect(task, selected_index)
        applied == ApplyProgress(u, task.word_id, is_correct)
    IN  IF task_id \notin DOMAIN task_history
        THEN AnswerResult(task_history, progress, << Msg(u, "task_not_found") >>)
        ELSE IF AlreadyAnswered(task)
        THEN AnswerResult(task_history, progress, << Msg(u, "already_answered") >>)
        ELSE IF selected_index + 1 \notin DOMAIN task.options
        THEN \* options[selected_index] raises IndexError
             AnswerResult(task_history, progress, << >>)
        ELSE AnswerResult(
               [task_history EXCEPT ![task_id] =
                   update_task_history_answer(
                       @, task.options[selected_index + 1], is_correct,
                       IF is_correct = True THEN "right" ELSE "wrong")],
               applied.progress,
               IF applied.ok THEN << Msg(u, "graded") >> ELSE << >>)

\* ----------------------------------------------------------------- actions
\* /start: create the user, seed the base words when the table is empty, and
\* create a progress row for every word the user has none for.
cmd_start(u) ==
    LET wds == IF Len(words) = 0 THEN base_words ELSE words
        missing == { w \in DOMAIN wds :
                       get_user_word_progress(progress, u, w) = {} }
        \* the rows are appended in the order of the word list
        AddRows[n \in 0..Len(wds)] ==
            IF n = 0 THEN progress
            ELSE IF n \in missing
                 THEN Append(AddRows[n - 1], create_user_word_progress(u, n))
                 ELSE AddRows[n - 1]
    IN  /\ users' = get_or_create_user(users, u)
        /\ words' = wds
        /\ progress' = AddRows[Len(wds)]
        /\ UNCHANGED << now, task_history, jobs, running >>

\* "I woke up": set the active flag, register the job, run one tick.
cmd_wake_up(u) ==
    LET usrs == update_user_active_status(get_or_create_user(users, u), u, TRUE)
    IN  /\ users' = usrs
        /\ jobs' = start_user_scheduler(jobs, u, usrs[u].interval_minutes)
        /\ \E r \in first_task(u, usrs) :
              /\ Len(r.task_history) <= MaxTasks
              /\ task_history' = r.task_history
        /\ UNCHANGED << now, words, progress, running >>

\* Variant: "Went to sleep" also cancels the learner's ticks in flight.
cmd_sleep_cancels(u) ==
    /\ users' = update_user_active_status(get_or_create_user(users, u), u, FALSE)
    /\ jobs' = stop_user_scheduler(jobs, u)
    /\ running' = [c \in Coroutines |->
                      IF running[c].kind = "tick" /\ running[c].user_id = u
                      THEN Idle ELSE running[c]]
    /\ UNCHANGED << now, words, progress, task_history >>

\* "Went to sleep": clear the active flag, remove the job.
cmd_sleep(u) ==
    /\ users' = update_user_active_status(get_or_create_user(users, u), u, FALSE)
    /\ jobs' = stop_user_scheduler(jobs, u)
    /\ UNCHANGED << now, words, progress, task_history, running >>

\* Variant: the tick marks as reviewed the rows it selects from.
JobFire_marksserved(u) ==
    \E j \in jobs :
        /\ j.id = job_id(u)
        /\ j.next_run_time <= now
        /\ \E r \in send_task_to_user(u, users) :
              /\ Len(r.task_history) <= MaxTasks
              /\ task_history' = r.task_history
        /\ jobs' = (jobs \ {j}) \cup
              { [j EXCEPT !.next_run_time = @ + Minutes(j.interval_minutes)] }
        /\ progress' =
              [i \in DOMAIN progress |->
                  IF i \in get_words_for_review(u)
                  THEN [progress[i] EXCEPT !.last_reviewed_at = now]
                  ELSE progress[i]]
        /\ UNCHANGED << now, users, words, running >>

\* Variant: a failing tick takes its job out of the registry.
JobFire_dropsjob(u) ==
    \E j \in jobs :
        /\ j.id = job_id(u)
        /\ j.next_run_time <= now
        /\ \E r \in send_task_to_user(u, users) :
              /\ Len(r.task_history) <= MaxTasks
              /\ task_history' = r.task_history
              /\ jobs' =
                    IF r.messages = << Msg(u, "generation_error") >>
                    THEN jobs \ {j}
                    ELSE (jobs \ {j}) \cup
                           { [j EXCEPT !.next_run_time =
                                          @ + Minutes(j.interval_minutes)] }
        /\ UNCHANGED << now, users, words, progress, running >>

\* The interval trigger of a registered job fires: one tick.
JobFire(u) ==
    \E j \in jobs :
        /\ j.id = job_id(u)
        /\ j.next_run_time <= now
        /\ \E r \in send_task_to_user(u, users) :
              /\ Len(r.task_history) <= MaxTasks
              /\ task_history' = r.task_history
        /\ jobs' = (jobs \ {j}) \cup
              { [j EXCEPT !.next_run_time = @ + Minutes(j.interval_minutes)] }
        /\ UNCHANGED << now, users, words, progress, running >>

\* "dnd_<minutes>" button.
process_dnd_duration(u, minutes) ==
    /\ users' = set_do_not_disturb(get_or_create_user(users, u), u, minutes)
    /\ UNCHANGED << now, words, progress, task_history, jobs, running >>

\* Last step of the add-word dialogue.
process_word_ru(u, word_en) ==
    LET wds == get_or_create_word(words, word_en)
        word_id == MinOf(get_word_by_en(wds, word_en))
    IN  /\ users' = get_or_create_user(users, u)
        /\ words' = wds
        /\ progress' =
              IF get_user_word_progress(progress, u, word_id) # {}
              THEN progress
              ELSE Append(progress, create_user_word_progress(u, word_id))
        /\ UNCHANGED << now, task_history, jobs, running >>

\* A text message that is no command: the answer to a translation task.
handle_text_answer(u, verdict) ==
    LET r == text_answer_result(u, verdict)
    IN  /\ \A i \in DOMAIN r.progress :
              r.progress[i].total_answers_count <= MaxAttempts
        /\ users' = get_or_create_user(users, u)
        /\ task_history' = r.task_history
        /\ progress' = r.progress
        /\ UNCHANGED << now, words, jobs, running >>

\* An "answer_<task_id>_<option_index>" button.
handle_multiple_choice_answer(u, task_id, selected_index) ==
    LET r == choice_answer_result(u, task_id, selected_index)
    IN  /\ \A i \in DOMAIN r.progress :
              r.progress[i].total_answers_count <= MaxAttempts
        /\ users' = get_or_create_user(users, u)
        /\ task_history' = r.task_history
        /\ progress' = r.progress
        /\ UNCHANGED << now, words, jobs, running >>

\* Time passes; a job that is due runs before the clock moves on.
AdvanceTime ==
    /\ now < MaxTime
    /\ \A j \in jobs : j.next_run_time > now
    /\ now' = now + 1
    /\ UNCHANGED << users, words, progress, task_history, jobs, running >>

\* ---------------------------------------------------------- specification
\* The bot starts on an empty database with an empty job store.
Init ==
    /\ now = 0
    /\ users = [u \in Users |-> NoUser]
    /\ words = << >>
    /\ progress = << >>
    /\ task_history = << >>
    /\ jobs = {}
    /\ running = NoneRunning

Next ==
    \/ \E u \in Learners : cmd_start(u)
    \/ \E u \in Learners : cmd_wake_up(u)
    \/ \E u \in Learners : cmd_sleep(u)
    \/ \E u \in Learners : JobFire(u)
    \/ \E u \in Learners, m \in DndMinutes : process_dnd_duration(u, m)
    \/ \E u \in Learners, w \in TypedWords : process_word_ru(u, w)
    \/ \E u \in Learners, v \in ClassifierResults : handle_text_answer(u, v)
    \/ \E u \in Users, t \in 1..MaxTasks, i \in OptionIndexes :
          handle_multiple_choice_answer(u, t, i)
    \/ AdvanceTime

Spec == Init /\ [][Next]_vars


\* ------------------------------------------------- stored-database starts
\* The database file outlives the process: the bot can start on rows written
\* by earlier runs, with an empty (in-memory) job store.

\* A progress row as an earlier run can have left it: never reviewed (as
\* created at `created`), or reviewed at `reviewed` with the given score.
NeverReviewedRow(user_id, word_id, created) ==
    [user_id |-> user_id, word_id |-> word_id, knowledge_percent |-> 0,
     last_reviewed_at |-> NULL, next_review_at |-> created,
     correct_answers_count |-> 0, total_answers_count |-> 0]

ReviewedRow(user_id, word_id, score, reviewed, correct) ==
    [user_id |-> user_id, word_id |-> word_id, knowledge_percent |-> score,
     last_reviewed_at |-> reviewed,
     next_review_at |-> reviewed + Minutes(get_review_interval(score)),
     correct_answers_count |-> correct, total_answers_count |-> 1]

\* Grading: learner 1 holds one progress row with any score of the column's
\* range and has one closed-form and one open-form question unanswered.
GradeRows ==
    { NeverReviewedRow(1, 1, 0) } \cup
    { ReviewedRow(1, 1, s, 0, c) :
        s \in MIN_KNOWLEDGE..MAX_KNOWLEDGE, c \in 0..1 }

InitGrade ==
    /\ now = 0
    /\ users = [u \in Users |-> IF u \in Learners THEN create_user ELSE NoUser]
    /\ words = base_words
    /\ \E row \in GradeRows : progress = << row >>
    /\ task_history =
          << [user_id |-> 1, word_id |-> 1,
              task_type |-> "multiple_choice_en_to_ru",
              options |-> << "right", "wrong" >>, correct_index |-> 0,
              user_answer |-> None, is_correct |-> None, ai_feedback |-> None],
             [user_id |-> 1, word_id |-> 1,
              task_type |-> "translation_to_en",
              options |-> << >>, correct_index |-> NULL,
              user_answer |-> None, is_correct |-> None, ai_feedback |-> None] >>
    /\ jobs = {}
    /\ running = NoneRunning

NextGrade ==
    \/ \E u \in Learners, v \in ClassifierResults : handle_text_answer(u, v)
    \/ \E u \in Users, t \in 1..MaxTasks, i \in OptionIndexes :
          handle_multiple_choice_answer(u, t, i)
    \/ \E u \in Learners, w \in TypedWords : process_word_ru(u, w)
    \/ AdvanceTime

SpecGrade == InitGrade /\ [][NextGrade]_vars

\* Selection: learner 1 holds rows for words 1 and 2, learner 2 a row for
\* word 3, each never reviewed or reviewed with a low, a middle or a higher
\* score; both learners press "I woke up", which runs one tick each time.
SelectScores == { 0, 15, 30 }

SelectRows(user_id, word_id) ==
    { NeverReviewedRow(user_id, word_id, c) : c \in 0..StartedAt } \cup
    { ReviewedRow(user_id, word_id, s, r, 0) :
        s \in SelectScores, r \in 0..StartedAt }

InitSelect ==
    /\ now = StartedAt
    /\ users = [u \in Users |-> create_user]
    /\ words = base_words
    /\ \E a \in SelectRows(1, 1), b \in SelectRows(1, 2), c \in SelectRows(2, 3) :
          progress = << a, b, c >>
    /\ task_history = << >>
    /\ jobs = {}
    /\ running = NoneRunning

NextSelect ==
    \E u \in Users : cmd_wake_up(u)

SpecSelect == InitSelect /\ [][NextSelect]_vars

\* Ticks: learner 1 is known and not yet active; the table holds no row, a
\* row never reviewed, a reviewed row that falls due one interval later, a
\* reviewed row that falls due after the clock's last instant, or only a due
\* row of learner 2.  The learner wakes up, goes to sleep, sets "do not
\* disturb" and answers while the clock and the job run.
TickTables ==
    { << >>,
      << NeverReviewedRow(1, 1, 0) >>,
      << ReviewedRow(1, 1, 0, 0, 0) >>,
      << ReviewedRow(1, 1, 30, 0, 1) >>,
      << NeverReviewedRow(2, 1, 0) >> }

InitTick ==
    /\ now = 0
    /\ users = [u \in Users |-> create_user]
    /\ words = base_words
    /\ progress \in TickTables
    /\ task_history = << >>
    /\ jobs = {}
    /\ running = NoneRunning

NextTick ==
    \/ \E u \in Learners : cmd_wake_up(u)
    \/ \E u \in Learners : cmd_sleep(u)
    \/ \E u \in Learners : JobFire(u)
    \/ \E u \in Learners, m \in DndMinutes : process_dnd_duration(u, m)
    \/ \E u \in Learners, v \in ClassifierResults : handle_text_answer(u, v)
    \/ \E u \in Learners, t \in 1..MaxTasks, i \in OptionIndexes :
          handle_multiple_choice_answer(u, t, i)
    \/ AdvanceTime

SpecTick == InitTick /\ [][NextTick]_vars

\* One new word: learner 1, not yet active, holds a single progress row,
\* created one hour before the bot's clock reading StartedAt and never
\* reviewed.
InitTrace ==
    /\ now = StartedAt
    /\ users = [u \in Users |-> IF u = 1 THEN create_user ELSE NoUser]
    /\ words = base_words
    /\ progress = << NeverReviewedRow(1, 1, StartedAt - 2) >>
    /\ task_history = << >>
    /\ jobs = {}
    /\ running = NoneRunning

NextTrace ==
    \/ \E u \in Learners : cmd_wake_up(u)
    \/ \E u \in Learners : cmd_sleep(u)
    \/ \E u \in Learners, v \in ClassifierResults : handle_text_answer(u, v)
    \/ \E u \in Learners, t \in 1..MaxTasks, i \in OptionIndexes :
          handle_multiple_choice_answer(u, t, i)

SpecTrace == InitTrace /\ [][NextTrace]_vars

\* ------------------------------------------------- handlers as coroutines
\* aiogram runs every update as a task of the event loop and the scheduler
\* runs every firing of a job as another, each with a database session of
\* its own (AsyncSessionLocal()).  A coroutine can be suspended at each
\* await that touches the database or a remote service, and the others run
\* meanwhile.  The steps below cut send_task_to_user and the two answer
\* handlers at these awaits; what a coroutine has read stays in its slot.
Free == { c \in Coroutines : running[c].kind = "idle" }

\* The registry of suspended coroutines with one more in it.
Spawn(co) == [running EXCEPT ![MinOf(Free)] = co]

\* send_task_to_user past its checks, about to select.
TickCoroutine(u, by_job) ==
    [Idle EXCEPT !.kind = "tick", !.pc = "select", !.user_id = u,
                 !.by_job = by_job]

\* "I woke up" up to the commit of update_user_active_status.
cmd_wake_up_begin(u) ==
    /\ Free # {}
    /\ users' = update_user_active_status(get_or_create_user(users, u), u, TRUE)
    /\ running' = Spawn([Idle EXCEPT !.kind = "wake_up", !.pc = "register",
                                      !.user_id = u])
    /\ UNCHANGED << now, words, progress, task_history, jobs >>

\* start_user_scheduler of a suspended "I woke up": the job is registered
\* with the interval the handler read, and the awaited tick reads the users
\* row and returns at its checks or goes on to select.
cmd_wake_up_register(c) ==
    LET u == running[c].user_id
    IN  /\ running[c].kind = "wake_up"
        /\ running[c].pc = "register"
        /\ jobs' = start_user_scheduler(jobs, u, users[u].interval_minutes)
        /\ running' =
              IF ~users[u].is_active \/ Suppressed(users[u])
              THEN [running EXCEPT ![c] = Idle]
              ELSE [running EXCEPT ![c] = TickCoroutine(u, FALSE)]
        /\ UNCHANGED << now, users, words, progress, task_history >>

\* The job fires.  The executor starts no second instance of a job while one
\* is running (max_instances is 1); a tick of a learner who is not active or
\* is inside "do not disturb" returns at its checks.
JobFire_begin(u) ==
    \E j \in jobs :
        /\ j.id = job_id(u)
        /\ j.next_run_time <= now
        /\ jobs' = (jobs \ {j}) \cup
              { [j EXCEPT !.next_run_time = @ + Minutes(j.interval_minutes)] }
        /\ IF \/ \E c \in Coroutines :
                    /\ running[c].kind = "tick"
                    /\ running[c].user_id = u
                    /\ running[c].by_job
              \/ ~users[u].exists
              \/ ~users[u].is_active
              \/ Suppressed(users[u])
           THEN running' = running
           ELSE /\ Free # {}
                /\ running' = Spawn(TickCoroutine(u, TRUE))
        /\ UNCHANGED << now, users, words, progress, task_history >>

\* The tick's get_words_for_review returns: nothing due ends the tick with the
\* notice, else the tick goes on with the row it got.
send_task_to_user_select(c) ==
    /\ running[c].kind = "tick"
    /\ running[c].pc = "select"
    /\ IF get_words_for_review(running[c].user_id) = {}
       THEN running' = [running EXCEPT ![c] = Idle]
       ELSE \E p \in get_words_for_review(running[c].user_id) :
               running' = [running EXCEPT ![c].pc = "issue",
                                          ![c].progress_id = p]
    /\ UNCHANGED << now, users, words, progress, task_history, jobs >>

\* The try block of the tick: generator, create_task_history, delivery.
send_task_to_user_issue(c) ==
    /\ running[c].kind = "tick"
    /\ running[c].pc = "issue"
    /\ \E tt \in DrawnTaskTypes, g \in CallResults, d \in CallResults :
          \E r \in IssueTask(running[c].user_id, running[c].progress_id,
                             tt, g, d) :
              /\ Len(r.task_history) <= MaxTasks
              /\ task_history' = r.task_history
    /\ running' = [running EXCEPT ![c] = Idle]
    /\ UNCHANGED << now, users, words, progress, jobs >>

\* An answer button up to the first write: the task is loaded and checked.
handle_multiple_choice_answer_begin(u, task_id, selected_index) ==
    /\ users' = get_or_create_user(users, u)
    /\ IF \/ task_id \notin DOMAIN task_history
          \/ AlreadyAnswered(task_history[task_id])
          \/ selected_index + 1 \notin DOMAIN task_history[task_id].options
       THEN running' = running
       ELSE /\ Free # {}
            /\ running' = Spawn(
                  [Idle EXCEPT
                      !.kind = "choice", !.pc = "store", !.user_id = u,
                      !.task_id = task_id,
                      !.is_correct =
                          ChoiceIsCorrect(task_history[task_id], selected_index),
                      !.user_answer =
                          task_history[task_id].options[selected_index + 1]])
    /\ UNCHANGED << now, words, progress, task_history, jobs >>

\* A text up to the call of the classifier: the latest pending task is loaded
\* and its kind checked.
handle_text_answer_begin(u) ==
    /\ users' = get_or_create_user(users, u)
    /\ IF \/ get_last_pending_task(u) = {}
          \/ ~AcceptsText(task_history[MaxOf(get_last_pending_task(u))])
       THEN running' = running
       ELSE /\ Free # {}
            /\ running' = Spawn(
                  [Idle EXCEPT
                      !.kind = "text", !.pc = "store", !.user_id = u,
                      !.task_id = MaxOf(get_last_pending_task(u)),
                      !.user_answer = "text"])
    /\ UNCHANGED << now, words, progress, task_history, jobs >>

\* update_task_history_answer commits (an UPDATE by id), then
\* get_user_word_progress loads the row into the handler's session.  For a
\* text the classifier's reply comes first; its exception ends the handler.
handle_answer_store(c, verdict) ==
    LET co == running[c]
        ids == get_user_word_progress(progress, co.user_id,
                                      task_history[co.task_id].word_id)
    IN  /\ co.kind \in { "choice", "text" }
        /\ co.pc = "store"
        /\ co.kind = "choice" => verdict = co.is_correct
        /\ IF verdict = "raise"
           THEN /\ running' = [running EXCEPT ![c] = Idle]
                /\ task_history' = task_history
           ELSE /\ task_history' =
                      [task_history EXCEPT ![co.task_id] =
                          update_task_history_answer(
                              @, co.user_answer, verdict,
                              IF co.kind = "text" THEN "feedback"
                              ELSE IF verdict = True THEN "right" ELSE "wrong")]
                /\ running' =
                      IF Cardinality(ids) = 1
                      THEN [running EXCEPT
                               ![c].pc = "commit",
                               ![c].is_correct = verdict,
                               ![c].progress_id = MinOf(ids),
                               ![c].row = << progress[MinOf(ids)] >>]
                      ELSE [running EXCEPT ![c] = Idle]
        /\ UNCHANGED << now, users, words, progress, jobs >>

\* update_word_progress changes the loaded row and commits: the UPDATE
\* carries the values computed from what the session loaded.
update_word_progress_commit(c) ==
    LET co == running[c]
        row == update_word_progress(co.row[1], co.is_correct)
    IN  /\ co.kind \in { "choice", "text" }
        /\ co.pc = "commit"
        /\ row.total_answers_count <= MaxAttempts
        /\ progress' = [progress EXCEPT ![co.progress_id] = row]
        /\ running' = [running EXCEPT ![c] = Idle]
        /\ UNCHANGED << now, users, words, task_history, jobs >>

\* Learner 1 said "I woke up" one interval ago: the job is due, and the task
\* of the first tick, a question with buttons about the learner's only word,
\* is unanswered.
InitAsync ==
    /\ now = 0
    /\ users = [u \in Users |->
                  IF u \in Learners
                  THEN update_user_active_status(
                           [v \in Users |-> create_user], u, TRUE)[u]
                  ELSE NoUser]
    /\ words = base_words
    /\ progress = << NeverReviewedRow(1, 1, 0) >>
    /\ \E content \in generate_task("multiple_choice_en_to_ru") :
          task_history =
              << create_task_history(1, 1, "multiple_choice_en_to_ru", content) >>
    /\ jobs = { [id |-> job_id(1),
                 interval_minutes |-> default_interval_minutes,
                 next_run_time |-> now] }
    /\ running = NoneRunning

NextAsync ==
    \/ \E u \in Learners : cmd_wake_up_begin(u)
    \/ \E c \in Coroutines : cmd_wake_up_register(c)
    \/ \E u \in Learners : cmd_sleep(u)
    \/ \E u \in Learners : JobFire_begin(u)
    \/ \E c \in Coroutines : send_task_to_user_select(c)
    \/ \E c \in Coroutines : send_task_to_user_issue(c)
    \/ \E u \in Learners, t \in 1..MaxTasks, i \in OptionIndexes :
          handle_multiple_choice_answer_begin(u, t, i)
    \/ \E u \in Learners : handle_text_answer_begin(u)
    \/ \E c \in Coroutines, v \in ClassifierResults : handle_answer_store(c, v)
    \/ \E c \in Coroutines : update_word_progress_commit(c)

SpecAsync == InitAsync /\ [][NextAsync]_vars

\* The same start with the clock running and no answers: "I woke up", "Went
\* to sleep", the job and the ticks they start.
NextAwake ==
    \/ \E u \in Learners : cmd_wake_up_begin(u)
    \/ \E c \in Coroutines : cmd_wake_up_register(c)
    \/ \E u \in Learners : cmd_sleep(u)
    \/ \E u \in Learners : JobFire_begin(u)
    \/ \E c \in Coroutines : send_task_to_user_select(c)
    \/ \E c \in Coroutines : send_task_to_user_issue(c)
    \/ AdvanceTime

SpecAwake == InitAsync /\ [][NextAwake]_vars

\* Button tasks as stored: generate_task returns the parsed reply of the
\* language model as it came, and send_task_to_user stores it unchecked, so
\* an option list can hold the same word twice, or twice up to letter case.
OptionStrings == { "cat", "Cat", "dog" }

ChoiceOptionLists == { << a, b >> : a \in OptionStrings, b \in OptionStrings }

\* Learner 1 holds one new word and one unanswered button task about it with
\* any of these option lists and either index as the correct one.
InitChoice ==
    /\ now = 0
    /\ users = [u \in Users |-> IF u \in Learners THEN create_user ELSE NoUser]
    /\ words = base_words
    /\ progress = << NeverReviewedRow(1, 1, 0) >>
    /\ \E ol \in ChoiceOptionLists, ci \in OptionIndexes :
          task_history =
              << create_task_history(1, 1, "multiple_choice_en_to_ru",
                                     [options |-> ol, correct_index |-> ci]) >>
    /\ jobs = {}
    /\ running = NoneRunning

NextChoice ==
    \/ \E u \in Users, t \in 1..MaxTasks, i \in OptionIndexes :
          handle_multiple_choice_answer(u, t, i)
    \/ AdvanceTime

SpecChoice == InitChoice /\ [][NextChoice]_vars

\* "Went to sleep" up to the commit of update_user_active_status.
cmd_sleep_begin(u) ==
    /\ Free # {}
    /\ users' = update_user_active_status(get_or_create_user(users, u), u, FALSE)
    /\ running' = Spawn([Idle EXCEPT !.kind = "sleep", !.pc = "stop",
                                      !.user_id = u])
    /\ UNCHANGED << now, words, progress, task_history, jobs >>

\* stop_user_scheduler of a suspended "Went to sleep".
cmd_sleep_stop(c) ==
    /\ running[c].kind = "sleep"
    /\ running[c].pc = "stop"
    /\ jobs' = stop_user_scheduler(jobs, running[c].user_id)
    /\ running' = [running EXCEPT ![c] = Idle]
    /\ UNCHANGED << now, users, words, progress, task_history >>

\* The start of SpecAsync with "I woke up" and "Went to sleep" both cut at
\* the commit of the active flag, and the ticks "I woke up" awaits.
NextToggle ==
    \/ \E u \in Learners : cmd_wake_up_begin(u)
    \/ \E c \in Coroutines : cmd_wake_up_register(c)
    \/ \E u \in Learners : cmd_sleep_begin(u)
    \/ \E c \in Coroutines : cmd_sleep_stop(c)
    \/ \E c \in Coroutines : send_task_to_user_select(c)
    \/ \E c \in Coroutines : send_task_to_user_issue(c)

SpecToggle == InitAsync /\ [][NextToggle]_vars

\* ---------------------------------------------- the pool, as coroutines
\* /start up to its loop: the user row, the word list (seeded when empty).
\* The loop then goes through the words it loaded, from the first to the
\* last, with one existence check and at most one insert for each.
cmd_start_begin(u) ==
    LET wds == IF Len(words) = 0 THEN base_words ELSE words
    IN  /\ Free # {}
        /\ users' = get_or_create_user(users, u)
        /\ words' = wds
        /\ running' = Spawn([Idle EXCEPT !.kind = "start", !.pc = "check",
                                          !.user_id = u, !.word_id = 1,
                                          !.last_word = Len(wds)])
        /\ UNCHANGED << now, progress, task_history, jobs >>

\* The last step of the add-word dialogue up to its existence check: the
\* user row and get_or_create_word.
process_word_ru_begin(u, word_en) ==
    LET wds == get_or_create_word(words, word_en)
        word_id == MinOf(get_word_by_en(wds, word_en))
    IN  /\ Free # {}
        /\ users' = get_or_create_user(users, u)
        /\ words' = wds
        /\ running' = Spawn([Idle EXCEPT !.kind = "add_word", !.pc = "check",
                                          !.user_id = u, !.word_id = word_id,
                                          !.last_word = word_id])
        /\ UNCHANGED << now, progress, task_history, jobs >>

\* The coroutine after it is done with its current word.
NextWord(co) ==
    IF co.word_id = co.last_word THEN Idle
    ELSE [co EXCEPT !.pc = "check", !.word_id = @ + 1]

\* get_user_word_progress of a suspended /start or add-word returns: no row
\* sends the handler to the insert, one row to the next word, several rows
\* raise (scalar_one_or_none) and end the handler.
get_user_word_progress_check(c) ==
    LET co == running[c]
        ids == get_user_word_progress(progress, co.user_id, co.word_id)
    IN  /\ co.kind \in { "start", "add_word" }
        /\ co.pc = "check"
        /\ running' =
              [running EXCEPT ![c] =
                  IF ids = {} THEN [co EXCEPT !.pc = "insert"]
                  ELSE IF Cardinality(ids) = 1 THEN NextWord(co)
                  ELSE Idle]
        /\ UNCHANGED << now, users, words, progress, task_history, jobs >>

\* create_user_word_progress commits the new row.
create_user_word_progress_insert(c) ==
    LET co == running[c]
    IN  /\ co.kind \in { "start", "add_word" }
        /\ co.pc = "insert"
        /\ progress' = Append(progress,
                              create_user_word_progress(co.user_id, co.word_id))
        /\ running' = [running EXCEPT ![c] = NextWord(co)]
        /\ UNCHANGED << now, users, words, task_history, jobs >>

\* The word list is seeded and learner 1 is known to the bot, with no
\* progress row yet.
InitPool ==
    /\ now = 0
    /\ users = [u \in Users |-> IF u \in Learners THEN create_user ELSE NoUser]
    /\ words = base_words
    /\ progress = << >>
    /\ task_history = << >>
    /\ jobs = {}
    /\ running = NoneRunning

NextPool ==
    \/ \E u \in Learners : cmd_start_begin(u)
    \/ \E u \in Learners, w \in TypedWords : process_word_ru_begin(u, w)
    \/ \E c \in Coroutines : get_user_word_progress_check(c)
    \/ \E c \in Coroutines : create_user_word_progress_insert(c)

SpecPool == InitPool /\ [][NextPool]_vars

\* ------------------------------------------------------ the clock, unbounded
\* A stored instant counted from an origin half an hour later; instants at
\* or before the origin are all "not after now" and are kept at the origin.
Rebase(t) == IF t = NULL THEN NULL ELSE Max2(0, t - 1)

\* Half an hour passes.  Up to MaxTime the clock moves; from then on the
\* origin moves instead, and every stored instant is counted from the new
\* origin.  A job that is due runs first.
TimePasses ==
    /\ \A j \in jobs : j.next_run_time > now
    /\ IF now < MaxTime
       THEN /\ now' = now + 1
            /\ UNCHANGED << users, progress, jobs >>
       ELSE /\ now' = now
            /\ users' = [u \in Users |->
                            [users[u] EXCEPT
                                !.do_not_disturb_until = Rebase(@)]]
            /\ progress' = [i \in DOMAIN progress |->
                               [progress[i] EXCEPT
                                   !.last_reviewed_at = Rebase(@),
                                   !.next_review_at = Rebase(@)]]
            /\ jobs' = { [j EXCEPT !.next_run_time = @ - 1] : j \in jobs }
    /\ UNCHANGED << words, task_history, running >>

\* A firing of learner u's job that stores a task: the generator answered.
IssuingTick(u) ==
    /\ JobFire(u)
    /\ Len(task_history') = Len(task_history) + 1

\* Learner 1 said "I woke up" just now, possibly inside a "do not disturb"
\* window, and the first tick stored no task.  The learner's one row was
\* never reviewed, or was reviewed just now and falls due in half an hour or
\* in four hours.
LiveWindows == { NULL } \cup 1..StartedAt

LiveRows ==
    UNION { { NeverReviewedRow(1, w, 0),
              ReviewedRow(1, w, 0, 0, 0),
              ReviewedRow(1, w, 30, 0, 1) } : w \in DOMAIN base_words }

InitLive ==
    /\ now = 0
    /\ \E d \in LiveWindows :
          users = [u \in Users |->
                      IF u \in Learners
                      THEN [create_user EXCEPT !.is_active = TRUE,
                                               !.do_not_disturb_until = d]
                      ELSE NoUser]
    /\ words = base_words
    /\ \E row \in LiveRows : progress = << row >>
    /\ task_history = << >>
    /\ jobs = { [id |-> job_id(1),
                 interval_minutes |-> default_interval_minutes,
                 next_run_time |-> now + Minutes(default_interval_minutes)] }
    /\ running = NoneRunning

\* The learner does nothing more: the job and the clock run.
NextLive ==
    \/ \E u \in Learners : JobFire(u)
    \/ TimePasses

\* Time passes, the scheduler runs a job that is due, and the generator does
\* not fail for ever: a firing that can store a task again and again does
\* store one.
SpecLive ==
    /\ InitLive
    /\ [][NextLive]_vars
    /\ WF_vars(TimePasses)
    /\ \A u \in Learners : WF_vars(JobFire(u))
    /\ \A u \in Learners : SF_vars(IssuingTick(u))

\* ------------------------------------------------------------------ claims
\* A task row whose outcome is set.
OutcomeSet(task) == task.is_correct \in { True, False }

\* C1: in every reachable state each learner has at most one task_history row
\* whose is_correct is unset.  (Checked under Spec.)
C1_AtMostOnePendingTask ==
    \A u \in Users :
        Cardinality({ t \in DOMAIN task_history :
                        /\ task_history[t].user_id = u
                        /\ task_history[t].is_correct = None }) <= 1

\* Two unanswered tasks of learner 1, the second one issued by the job that
\* fired one interval after "I woke up".
C1_TwoPendingTasks ==
    /\ Len(task_history) = 2
    /\ \A t \in 1..2 : /\ task_history[t].user_id = 1
                       /\ task_history[t].is_correct = None
                       /\ task_history[t].user_answer = None
    /\ now = 1
    /\ \E j \in jobs : j.id = job_id(1) /\ j.next_run_time = 2

\* C2: a tick (the one of "I woke up" or one fired by the job) for a learner
\* who has a task with the outcome unset creates no task row and leaves the
\* pending task as it is.  (Checked under Spec.)
C2_TickWithPendingTaskConflicts ==
    [][ \A u \in Learners :
            ( /\ \E t \in DOMAIN task_history :
                    /\ task_history[t].user_id = u
                    /\ task_history[t].is_correct = None
              /\ cmd_wake_up(u) \/ JobFire(u) )
            => task_history' = task_history ]_vars

\* A second unanswered task for the very word of the first one: the tick
\* selected the same progress row again and stored another task.
C2_SecondTaskForSameWord ==
    /\ Len(task_history) = 2
    /\ task_history[1].user_id = task_history[2].user_id
    /\ task_history[1].word_id = task_history[2].word_id
    /\ task_history[1].is_correct = None
    /\ task_history[2].is_correct = None
    /\ task_history[2].task_type = "multiple_choice_en_to_ru"

\* C3: grading a task whose outcome is set is rejected as already answered
\* and changes nothing: pressing any answer button of such a task, by any
\* user, leaves task_history and progress as they are and answers "already
\* answered"; and no text answer changes such a task.  (Checked under
\* SpecGrade.)
C3_AnsweredTaskIsRejected ==
    \A t \in DOMAIN task_history :
        OutcomeSet(task_history[t]) =>
            /\ \A u \in Users, i \in OptionIndexes :
                  LET r == choice_answer_result(u, t, i)
                  IN  /\ r.task_history = task_history
                      /\ r.progress = progress
                      /\ r.messages = << Msg(u, "already_answered") >>
            /\ \A u \in Users, v \in ClassifierResults :
                  text_answer_result(u, v).task_history[t] = task_history[t]

\* The button task has been answered and graded, the text task is still open.
C3_ButtonTaskAnswered ==
    /\ task_history[1].is_correct = False
    /\ task_history[1].user_answer = "wrong"
    /\ task_history[2].is_correct = None
    /\ progress[1].total_answers_count >= 1
    /\ progress[1].last_reviewed_at = now

\* C4: every progress row has a knowledge score in 0..100, and the score of a
\* row that was never graded is 0.  (Checked under SpecGrade, which starts from
\* every score of the range.)
C4_ScoreInRange ==
    \A i \in DOMAIN progress :
        /\ progress[i].knowledge_percent >= 0
        /\ progress[i].knowledge_percent <= 100
        /\ progress[i].total_answers_count = 0 =>
              progress[i].knowledge_percent = 0

\* A row graded up to the top of the range beside a row just created.
C4_TopScoreAndNewRow ==
    /\ Len(progress) = 2
    /\ progress[1].knowledge_percent = 100
    /\ progress[1].total_answers_count = 2
    /\ progress[1].correct_answers_count = 2
    /\ progress[2].knowledge_percent = 0
    /\ progress[2].total_answers_count = 0

\* C5: for every progress row with a score s in 0..100 and every boolean
\* outcome, update_word_progress gives min(100, s + 15) for a correct and
\* max(0, s - 10) for an incorrect answer, adds 1 to the total count and 1 to
\* the correct count exactly when the answer is correct; the correct count
\* never exceeds the total count.  (Checked under SpecGrade.)
C5_GradeArithmetic ==
    \A i \in DOMAIN progress :
        LET p == progress[i]
            s == p.knowledge_percent
            right == update_word_progress(p, True)
            wrong == update_word_progress(p, False)
        IN  (s >= 0 /\ s <= 100) =>
              /\ right.knowledge_percent = (IF s + 15 > 100 THEN 100 ELSE s + 15)
              /\ wrong.knowledge_percent = (IF s - 10 < 0 THEN 0 ELSE s - 10)
              /\ right.total_answers_count = p.total_answers_count + 1
              /\ wrong.total_answers_count = p.total_answers_count + 1
              /\ right.correct_answers_count = p.correct_answers_count + 1
              /\ wrong.correct_answers_count = p.correct_answers_count
              /\ p.correct_answers_count <= p.total_answers_count
              /\ right.correct_answers_count <= right.total_answers_count
              /\ wrong.correct_answers_count <= wrong.total_answers_count

\* A row graded down to the bottom of the range by a handler: one correct
\* answer out of two, the text task answered incorrectly.
C5_GradedDownToZero ==
    /\ progress[1].knowledge_percent = 0
    /\ progress[1].total_answers_count = 2
    /\ progress[1].correct_answers_count = 1
    /\ task_history[2].is_correct = False
    /\ task_history[2].user_answer = "text"

\* C6: after a grade the row has last_reviewed_at = now, not NULL, and
\* next_review_at = now + the interval of the score after the update, which is
\* later than last_reviewed_at, so the row is not due at the time of the
\* grade; every reviewed row of the table is in this relation.  (Checked under
\* SpecGrade.)
C6_NextDueFromNewScore ==
    /\ \A i \in DOMAIN progress, o \in { True, False } :
          LET q == update_word_progress(progress[i], o)
          IN  /\ q.last_reviewed_at = now
              /\ q.last_reviewed_at # NULL
              /\ q.next_review_at =
                    now + Minutes(get_review_interval(q.knowledge_percent))
              /\ q.next_review_at > q.last_reviewed_at
              /\ ~ (q.next_review_at <= now)
    /\ \A i \in DOMAIN progress :
          progress[i].last_reviewed_at # NULL =>
              /\ progress[i].next_review_at =
                    progress[i].last_reviewed_at
                    + Minutes(get_review_interval(progress[i].knowledge_percent))
              /\ progress[i].next_review_at > progress[i].last_reviewed_at

\* A row graded correct at instant 1 from score 15 to 30: the score crossed
\* into the 4 hour band and the row is due 8 half-hours later.
C6_GradedAcrossBands ==
    /\ progress[1].last_reviewed_at = 1
    /\ progress[1].knowledge_percent = 30
    /\ progress[1].correct_answers_count = 2
    /\ progress[1].total_answers_count = 2
    /\ progress[1].next_review_at = 9

\* get_review_interval and the number of matching bands, tabulated over the
\* range of the score.
IntervalOfScore == [s \in 0..100 |-> get_review_interval(s)]

BandsOfScore == [s \in 0..100 |-> Cardinality(MatchingBands(s))]

\* C7: get_review_interval is monotone on 0..100 and every score of 0..100 is
\* in exactly one band of the table, so the fallback is not taken: for the
\* score of every row, compared with every score of the range.  (Checked
\* under SpecGrade, whose rows start with every score of the range.)
C7_IntervalMonotoneOneBand ==
    \A i \in DOMAIN progress :
        LET a == progress[i].knowledge_percent
        IN  (a >= 0 /\ a <= 100) =>
              /\ BandsOfScore[a] = 1
              /\ get_review_interval(a) = IntervalOfScore[a]
              /\ \A b \in 0..100 :
                    /\ a <= b => IntervalOfScore[a] <= IntervalOfScore[b]
                    /\ b <= a => IntervalOfScore[b] <= IntervalOfScore[a]

\* A row graded into the top band (75 + 15 = 90): due one week later.
C7_GradedIntoTopBand ==
    /\ progress[1].knowledge_percent = 90
    /\ progress[1].total_answers_count = 2
    /\ progress[1].correct_answers_count = 2
    /\ progress[1].next_review_at = progress[1].last_reviewed_at + 336

\* C8: the selector returns no row whose next_review_at is later than the
\* time of the selection and no row of another learner.  (Checked under
\* SpecSelect.)
C8_SelectsOnlyOwnDueRows ==
    \A u \in Users :
        \A i \in get_words_for_review(u) :
            /\ progress[i].user_id = u
            /\ ~ (progress[i].next_review_at > now)

\* Learner 1 got a task for word 2 although the row of word 1 has the lower
\* score (it is not due yet) and learner 2's row was never reviewed.
C8_SkippedEarlyAndForeignRows ==
    /\ \E t \in DOMAIN task_history :
          task_history[t].user_id = 1 /\ task_history[t].word_id = 2
    /\ progress[1].next_review_at > now
    /\ progress[1].knowledge_percent < progress[2].knowledge_percent
    /\ progress[2].last_reviewed_at # NULL
    /\ progress[3].last_reviewed_at = NULL
    /\ progress[3].next_review_at <= now

\* Rows of learner u that are due, never reviewed or reviewed.
DueRows(u) ==
    { i \in DOMAIN progress :
        progress[i].user_id = u /\ progress[i].next_review_at <= now }

\* C9: when a learner has a due row never reviewed and a due row reviewed,
\* the selector returns a never-reviewed row.  (Checked under SpecSelect.)
C9_NeverReviewedFirst ==
    \A u \in Users :
        ( /\ \E i \in DueRows(u) : progress[i].last_reviewed_at = NULL
          /\ \E i \in DueRows(u) : progress[i].last_reviewed_at # NULL )
        => /\ get_words_for_review(u) # {}
           /\ \A i \in get_words_for_review(u) :
                 progress[i].last_reviewed_at = NULL

\* Learner 1 got a task for the never-reviewed word 2 although the reviewed
\* row of word 1 is due, has the same score and the earlier next_review_at.
C9_NewWordBeforeReviewedWord ==
    /\ \E t \in DOMAIN task_history :
          task_history[t].user_id = 1 /\ task_history[t].word_id = 2
    /\ progress[2].last_reviewed_at = NULL
    /\ progress[1].last_reviewed_at # NULL
    /\ progress[1].knowledge_percent = 0
    /\ progress[1].next_review_at < progress[2].next_review_at
    /\ progress[2].next_review_at <= now

\* The key (reviewed?, score, next_review_at) of row i is not greater than the
\* key of row j in the lexicographic order.
ReviewedKey(p) == IF p.last_reviewed_at = NULL THEN 0 ELSE 1

KeyNotGreater(i, j) ==
    LET p == progress[i]
        q == progress[j]
    IN  \/ ReviewedKey(p) < ReviewedKey(q)
        \/ /\ ReviewedKey(p) = ReviewedKey(q)
           /\ \/ p.knowledge_percent < q.knowledge_percent
              \/ /\ p.knowledge_percent = q.knowledge_percent
                 /\ p.next_review_at <= q.next_review_at

\* C10: the selected row is a minimum of the learner's due rows under the key
\* (reviewed?, score, next_review_at): among reviewed rows one of the least
\* score, among those one of the earliest next_review_at; and a row is
\* selected whenever one is due.  (Checked under SpecSelect.)
C10_SelectsMinimumOfDueRows ==
    \A u \in Users :
        /\ DueRows(u) # {} => get_words_for_review(u) # {}
        /\ \A i \in get_words_for_review(u) :
              \A j \in DueRows(u) : KeyNotGreater(i, j)

\* Both rows of learner 1 are reviewed and due; the task is for word 2, whose
\* score is lower although its next_review_at is later.
C10_LowerScoreBeforeEarlierDue ==
    /\ \E t \in DOMAIN task_history :
          task_history[t].user_id = 1 /\ task_history[t].word_id = 2
    /\ progress[1].last_reviewed_at # NULL
    /\ progress[2].last_reviewed_at # NULL
    /\ progress[1].next_review_at <= now
    /\ progress[2].next_review_at <= now
    /\ progress[2].knowledge_percent < progress[1].knowledge_percent
    /\ progress[1].next_review_at < progress[2].next_review_at

\* Learner u is active and no "do not disturb" window covers now: a tick
\* goes on to the selection.
Eligible(u) ==
    /\ users[u].exists
    /\ users[u].is_active
    /\ ~ ( /\ users[u].do_not_disturb_until # NULL
           /\ now < users[u].do_not_disturb_until )

\* Jobs of learner u in a registry.
JobsOf(jbs, u) == { j \in jbs : j.id = job_id(u) }

\* C11: a tick of an eligible learner who has no due row stores no task and
\* sends the all-repeated notice and nothing else, whatever the generator
\* or the delivery would do (neither is called); the tick has no other
\* outcome, and the learner's job is still registered after such ticks.
\* (Checked under SpecTick.)
C11_NothingDueOnlyNotice ==
    \A u \in Users :
        (Eligible(u) /\ DueRows(u) = {}) =>
            /\ send_task_to_user(u, users) =
                  { [task_history |-> task_history,
                     messages |-> << Msg(u, "all_repeated") >>] }
            /\ Cardinality(JobsOf(jobs, u)) = 1

\* The job fired at instant 1 for the active learner whose only row is not
\* due: no task was stored and the job is registered for its next run.
C11_JobFiredNothingDue ==
    /\ users[1].is_active
    /\ users[1].do_not_disturb_until = NULL
    /\ now = 1
    /\ progress = << ReviewedRow(1, 1, 30, 0, 1) >>
    /\ task_history = << >>
    /\ \E j \in jobs : j.id = job_id(1) /\ j.next_run_time = 2

\* C12: when the classifier call raises while a text answer is graded, the
\* task's outcome stays unset and the tables are unchanged (the learner gets
\* the check-error reply), and an answer to the same task is then accepted
\* and graded with the classifier's verdict.  (Checked under SpecGrade.)
C12_ClassifierFailureKeepsTaskOpen ==
    \A u \in Users :
        \A t \in DOMAIN task_history :
            ( /\ task_history[t].user_id = u
              /\ task_history[t].is_correct = None
              /\ \A t2 \in DOMAIN task_history :
                    (task_history[t2].user_id = u /\ task_history[t2].is_correct = None)
                    => t2 <= t
              /\ task_history[t].task_type \in { "translation_to_en", "translation_to_ru" } )
            => /\ text_answer_result(u, "raise").task_history = task_history
               /\ text_answer_result(u, "raise").progress = progress
               /\ text_answer_result(u, "raise").messages = << Msg(u, "check_error") >>
               /\ \A v \in { True, False } :
                     text_answer_result(u, v).task_history[t].is_correct = v

\* The text task, left open until then, was graded correct at instant 1,
\* after the button task had been answered.
C12_TextTaskGradedLater ==
    /\ task_history[2].is_correct = True
    /\ task_history[2].user_answer = "text"
    /\ task_history[1].is_correct = True
    /\ progress[1].last_reviewed_at = 1
    /\ progress[1].knowledge_percent = 30
    /\ progress[1].total_answers_count = 2

\* C13: when the classifier's reply has no boolean is_correct, grading fails:
\* the task stays pending and the learner's progress row is not changed (no
\* penalty, no answer counted).  (Checked under SpecGrade.)
C13_MalformedVerdictChangesNothing ==
    \A u \in Learners :
        /\ text_answer_result(u, None).progress = progress
        /\ \A t \in DOMAIN task_history :
              task_history[t].is_correct = None =>
                  text_answer_result(u, None).task_history[t].is_correct = None

\* A reply without a verdict was stored for the text task, which is still
\* pending, and the never-reviewed row has one answer counted.
C13_PenaltyWithoutVerdict ==
    /\ task_history[2].user_answer = "text"
    /\ task_history[2].is_correct = None
    /\ task_history[1].is_correct = None
    /\ Len(progress) = 1
    /\ progress[1].total_answers_count = 1
    /\ progress[1].correct_answers_count = 0
    /\ progress[1].last_reviewed_at = 0

\* C14: storing a task's outcome and advancing the progress row of the
\* task's learner and word go together: in every step, a progress row gains
\* exactly as many counted answers as tasks of its learner and word get
\* their outcome set in that step.  (Checked under SpecGrade.)
C14_OutcomeAndProgressTogether ==
    [][ \A k \in DOMAIN progress :
            progress'[k].total_answers_count - progress[k].total_answers_count =
                Cardinality({ t \in DOMAIN task_history :
                                /\ task_history[t].user_id = progress[k].user_id
                                /\ task_history[t].word_id = progress[k].word_id
                                /\ ~OutcomeSet(task_history[t])
                                /\ OutcomeSet(task_history'[t]) }) ]_vars

\* The button task of learner 1 has its outcome set while the learner's row
\* for the word was never advanced.
C14_AnsweredWithoutProgress ==
    /\ OutcomeSet(task_history[1])
    /\ task_history[1].user_id = 1
    /\ progress[1].user_id = 1
    /\ progress[1].word_id = task_history[1].word_id
    /\ progress[1].last_reviewed_at = NULL
    /\ progress[1].total_answers_count = 0

\* A tick result that stores one new pending task of learner u for the word
\* of one of the learner's due rows and keeps the earlier rows.
Issues(r, u) ==
    /\ Len(r.task_history) = Len(task_history) + 1
    /\ SubSeq(r.task_history, 1, Len(task_history)) = task_history
    /\ r.task_history[Len(r.task_history)].user_id = u
    /\ r.task_history[Len(r.task_history)].is_correct = None
    /\ r.task_history[Len(r.task_history)].user_answer = None
    /\ \E i \in DueRows(u) :
          r.task_history[Len(r.task_history)].word_id = progress[i].word_id

\* A tick result that stores nothing and sends the error notice.
FailsWithNotice(r, u) ==
    /\ r.task_history = task_history
    /\ r.messages = << Msg(u, "generation_error") >>

\* C15: when the generator raises during a tick, no task row is stored and
\* the learner is sent the error notice and no question (a tick writes no
\* progress row at all); this is an outcome of the tick of every eligible
\* learner with a due row.  (Checked under SpecTick.)
C15_GeneratorFailureStoresNothing ==
    \A u \in Users :
        /\ \A p \in DueRows(u), tt \in DrawnTaskTypes, d \in CallResults :
              \A r \in IssueTask(u, p, tt, "raise", d) : FailsWithNotice(r, u)
        /\ (Eligible(u) /\ DueRows(u) # {}) =>
              \A p \in get_words_for_review(u), tt \in DrawnTaskTypes,
                 d \in CallResults :
                  IssueTask(u, p, tt, "raise", d) \subseteq send_task_to_user(u, users)

\* The active learner's never-reviewed word is due, the job has fired at
\* instant 1, and no task is stored: the ticks so far ended in the error
\* notice.
C15_TicksWithoutTask ==
    /\ users[1].is_active
    /\ users[1].do_not_disturb_until = NULL
    /\ progress = << NeverReviewedRow(1, 1, 0) >>
    /\ now = 1
    /\ \E j \in jobs : j.id = job_id(1) /\ j.next_run_time = 2
    /\ task_history = << >>

\* C16: the registry holds at most one job per learner, and registering a
\* learner, with a job or without, leaves exactly one job of that learner,
\* with the interval just given and its first run one interval from now, and
\* the other learners' jobs as they are.  (Checked under SpecTick.)
C16_OneJobPerLearner ==
    \A u \in Users :
        /\ Cardinality(JobsOf(jobs, u)) <= 1
        /\ \A m \in { 30, 60 } :
              /\ JobsOf(start_user_scheduler(jobs, u, m), u) =
                    { [id |-> job_id(u), interval_minutes |-> m,
                       next_run_time |-> now + (m \div 30)] }
              /\ { j \in start_user_scheduler(jobs, u, m) : j.id # job_id(u) }
                    = { j \in jobs : j.id # job_id(u) }

\* Two tasks have been issued to the learner, who is active with a single
\* job whose next run is one interval after instant 1.
C16_SingleJobAfterSecondTick ==
    /\ now = 1
    /\ users[1].is_active
    /\ jobs = { [id |-> job_id(1), interval_minutes |-> 30, next_run_time |-> 2] }
    /\ Len(task_history) = 2

\* The users table as "I woke up" of learner u leaves it.
Activated(u) == [users EXCEPT ![u].exists = TRUE, ![u].is_active = TRUE]

\* "Do not disturb" of learner u covers now.
InWindow(u) ==
    /\ users[u].do_not_disturb_until # NULL
    /\ now < users[u].do_not_disturb_until

\* C17: the registration of "I woke up" runs one tick at once: for a learner
\* with a due row and no "do not disturb" window, every outcome of that tick
\* either stores a new pending task of the learner or is the generator's
\* failure with its notice, and the question is among the outcomes; no
\* outcome waits for the trigger.  (Checked under SpecTick.)
C17_FirstTaskAtOnce ==
    \A u \in Users :
        (DueRows(u) # {} /\ ~InWindow(u)) =>
            /\ \A r \in first_task(u, Activated(u)) :
                  Issues(r, u) \/ FailsWithNotice(r, u)
            /\ \E r \in first_task(u, Activated(u)) :
                  Issues(r, u) /\ r.messages = << Msg(u, "task") >>

\* At instant 0 the learner is active and already has a pending task, while
\* the job's first run is still one interval away.
C17_TaskBeforeFirstInterval ==
    /\ now = 0
    /\ users[1].is_active
    /\ Len(task_history) = 1
    /\ task_history[1].user_id = 1
    /\ task_history[1].is_correct = None
    /\ \E j \in jobs : j.id = job_id(1) /\ j.next_run_time = 1

\* C18: "went to sleep" removes the learner's job and only that job, and
\* changes nothing when there is none; while the learner is not active no job
\* of the learner is registered, and a tick for the learner stores no task
\* and sends nothing.  (Checked under SpecTick.)
C18_SleepStopsTicks ==
    \A u \in Users :
        /\ stop_user_scheduler(jobs, u) = jobs \ JobsOf(jobs, u)
        /\ JobsOf(jobs, u) = {} => stop_user_scheduler(jobs, u) = jobs
        /\ ~users[u].is_active =>
              /\ JobsOf(jobs, u) = {}
              /\ send_task_to_user(u, users) =
                    { [task_history |-> task_history, messages |-> << >>] }

\* The learner, who got a task while active, is asleep at instant 1 with a
\* due word and no job.
C18_AsleepWithDueWord ==
    /\ now = 1
    /\ ~users[1].is_active
    /\ jobs = {}
    /\ Len(task_history) = 1
    /\ DueRows(1) # {}

\* C19: a tick that starts while now is before the learner's "do not disturb"
\* time stores no task and sends nothing, not even the all-repeated notice,
\* whether a word is due or not; so does the first tick of "I woke up".  An
\* active learner inside the window still has the job registered.  (Checked
\* under SpecTick.)
C19_SuppressedTickIsSilent ==
    \A u \in Users :
        (users[u].exists /\ InWindow(u)) =>
            /\ users[u].is_active =>
                  /\ send_task_to_user(u, users) =
                        { [task_history |-> task_history, messages |-> << >>] }
                  /\ Cardinality(JobsOf(jobs, u)) = 1
            /\ first_task(u, Activated(u)) =
                  { [task_history |-> task_history, messages |-> << >>] }

\* The active learner is inside a window until instant 2, a word is due, the
\* job is registered for instant 2 and no task is stored.
C19_ActiveInsideWindow ==
    /\ now = 1
    /\ users[1].is_active
    /\ users[1].do_not_disturb_until = 2
    /\ progress = << NeverReviewedRow(1, 1, 0) >>
    /\ \E j \in jobs : j.id = job_id(1) /\ j.next_run_time = 2
    /\ task_history = << >>

\* C20: once now has reached the stored "do not disturb" time, the tick of an
\* active learner with a due row issues a question as usual (or ends in the
\* generator's failure notice); the stored time need not be cleared and the
\* learner need not wake up again.  (Checked under SpecTick.)
C20_SuppressionEndsByItself ==
    \A u \in Users :
        ( /\ users[u].exists
          /\ users[u].is_active
          /\ users[u].do_not_disturb_until # NULL
          /\ now >= users[u].do_not_disturb_until
          /\ DueRows(u) # {} )
        => /\ \A r \in send_task_to_user(u, users) :
                 Issues(r, u) \/ FailsWithNotice(r, u)
           /\ \E r \in send_task_to_user(u, users) :
                 Issues(r, u) /\ r.messages = << Msg(u, "task") >>

\* The window set at instant 0 ended at instant 1; the job fired then and the
\* learner, still with the stored time, has a pending task.
C20_TaskAfterWindow ==
    /\ now = 1
    /\ users[1].is_active
    /\ users[1].do_not_disturb_until = 1
    /\ \E j \in jobs : j.id = job_id(1) /\ j.next_run_time = 2
    /\ Len(task_history) = 1
    /\ task_history[1].is_correct = None
    /\ task_history[1].user_answer = None

\* Learner a takes a step: one of the learner's operations happens.
OperationOf(a) ==
    \/ cmd_wake_up(a)
    \/ cmd_sleep(a)
    \/ JobFire(a)
    \/ \E m \in DndMinutes : process_dnd_duration(a, m)
    \/ \E v \in ClassifierResults : handle_text_answer(a, v)
    \/ \E t \in 1..MaxTasks, i \in OptionIndexes :
          handle_multiple_choice_answer(a, t, i)

\* What the database and the job store hold for learner b.
RowsOf(prg, b) == { i \in DOMAIN prg : prg[i].user_id = b }
TasksOf(hst, b) == { t \in DOMAIN hst : hst[t].user_id = b }

\* C21: a step that is an operation of learner a leaves the users row, the
\* job, the progress rows and the task rows of every other learner b as they
\* were.  (Checked under SpecGrade.)
C21_OtherLearnersUntouched ==
    [][ \A a \in Users :
            OperationOf(a) =>
                \A b \in Users \ {a} :
                    /\ users'[b] = users[b]
                    /\ JobsOf(jobs', b) = JobsOf(jobs, b)
                    /\ RowsOf(progress', b) = RowsOf(progress, b)
                    /\ \A i \in RowsOf(progress, b) : progress'[i] = progress[i]
                    /\ TasksOf(task_history', b) = TasksOf(task_history, b)
                    /\ \A t \in TasksOf(task_history, b) :
                          task_history'[t] = task_history[t] ]_vars

\* Learner 1's button task carries an outcome while learner 1 never answered
\* anything: the text task is still open and the learner's row was never
\* advanced; user 2, who pressed the button, has a users row.
C21_AnsweredByAnotherUser ==
    /\ task_history[1].user_id = 1
    /\ OutcomeSet(task_history[1])
    /\ task_history[2].is_correct = None
    /\ \A i \in RowsOf(progress, 1) : progress[i].total_answers_count = 0
    /\ users[2].exists

\* The pending task of learner u stored last (the set PendingTasks(u) is not
\* empty).
LatestPending(u) ==
    CHOOSE t \in PendingTasks(u) : \A s \in PendingTasks(u) : s <= t

NonGradeStep(u) ==
    \/ cmd_wake_up(u)
    \/ cmd_sleep(u)
    \/ JobFire(u)
    \/ \E m \in DndMinutes : process_dnd_duration(u, m)

\* A step of one of the two answer handlers.
GradeStep ==
    \E u \in Users :
        \/ \E v \in ClassifierResults : handle_text_answer(u, v)
        \/ \E t \in 1..MaxTasks, i \in OptionIndexes :
              handle_multiple_choice_answer(u, t, i)

C28_FailingTickKeepsTrigger ==
    [][ \A u \in Users :
          /\ JobFire(u) =>
                /\ Len(task_history') <= Len(task_history) + 1
                /\ \E j \in JobsOf(jobs, u) :
                      JobsOf(jobs', u) =
                          { [id |-> j.id,
                             interval_minutes |-> j.interval_minutes,
                             next_run_time |->
                                 j.next_run_time + Minutes(j.interval_minutes)] }
          /\ cmd_wake_up(u) =>
                /\ Len(task_history') <= Len(task_history) + 1
                /\ JobsOf(jobs', u) =
                      { [id |-> job_id(u),
                         interval_minutes |-> users'[u].interval_minutes,
                         next_run_time |->
                             now + Minutes(users'[u].interval_minutes)] } ]_vars

\* Learner 1's row fell due at instant 1 and the job fired then, but no task
\* was stored: the generator failed.  The job is registered for instant 2.
C28_JobKeptAfterFailedTick ==
    /\ progress = << ReviewedRow(1, 1, 0, 0, 0) >>
    /\ now = 1
    /\ Eligible(1)
    /\ task_history = << >>
    /\ jobs = { [id |-> job_id(1), interval_minutes |-> 30, next_run_time |-> 2] }

\* The row of the trace as the first correct answer leaves it.
RowAfterFirstCorrect ==
    [user_id |-> 1, word_id |-> 1,
     knowledge_percent |-> 15,
     last_reviewed_at |-> now,
     next_review_at |-> now + Minutes(30),
     correct_answers_count |-> 1, total_answers_count |-> 1]

\* C25: the trace of one new word.  While learner 1's only row has score 0,
\* was never reviewed and fell due one hour ago, the selector returns that
\* row, and the tick of "I woke up" can issue a task (every task it stores is
\* a pending task of the learner for that word).  The step in which a task
\* of the learner for that word gets the outcome correct leaves the row with
\* score 15, one answer counted, one correct answer counted and the next
\* review 30 minutes after now.  (Checked under SpecTrace.)
C25_NewWordAnsweredCorrectly ==
    [][ progress = << NeverReviewedRow(1, 1, now - Minutes(60)) >> =>
          /\ get_words_for_review(1) = {1}
          /\ \E r \in first_task(1, Activated(1)) :
                Issues(r, 1) /\ r.messages = << Msg(1, "task") >>
          /\ \A u \in Users :
                (cmd_wake_up(u) /\ task_history' # task_history) =>
                    /\ u = 1
                    /\ task_history' \in
                          { r.task_history : r \in { q \in first_task(1, Activated(1)) :
                                                       Issues(q, 1) } }
          /\ ( \E t \in DOMAIN task_history :
                  /\ task_history[t].user_id = 1
                  /\ task_history[t].word_id = 1
                  /\ task_history[t].is_correct = None
                  /\ task_history'[t].is_correct = True ) =>
                progress' = << RowAfterFirstCorrect >> ]_vars

\* The task was answered correctly at the clock reading StartedAt: score 15,
\* one answer, one correct answer, next review one half-hour later.
C25_ScoreFifteenDueInHalfAnHour ==
    /\ \E t \in DOMAIN task_history : task_history[t].is_correct = True
    /\ progress = << RowAfterFirstCorrect >>
    /\ progress[1].next_review_at = StartedAt + 1

\* Coroutines of learner u in flight, by kind.
TicksInFlight(u) ==
    { c \in Coroutines : running[c].kind = "tick" /\ running[c].user_id = u }

GradesInFlight(u) ==
    { c \in Coroutines :
        running[c].kind \in { "choice", "text" } /\ running[c].user_id = u }

\* C22: in every reachable state at most one execution of send_task_to_user
\* per learner is between its start and its completion.  (Checked under
\* SpecAsync.)
C22_OneTickPerLearner ==
    \A u \in Users : Cardinality(TicksInFlight(u)) <= 1

\* The tick started by the job and the tick awaited by "I woke up" are both
\* in flight for learner 1.
C22_JobTickAndWakeUpTick ==
    /\ Cardinality(TicksInFlight(1)) = 2
    /\ \E c \in TicksInFlight(1) : running[c].by_job
    /\ \E c \in TicksInFlight(1) : ~running[c].by_job

\* C23: no reachable state has a tick of a learner that has read the
\* learner's progress rows and not yet stored its task together with an
\* answer handler of the same learner between its first read and its last
\* write; and the step in which a tick stores a task finds the selected row
\* still due.  (Checked under SpecAsync.)
C23_GradeAndTickExclusive ==
    [][ /\ \A u \in Users :
              ~ ( /\ \E c \in TicksInFlight(u) : running[c].pc = "issue"
                  /\ GradesInFlight(u) # {} )
        /\ \A c \in Coroutines :
              ( /\ send_task_to_user_issue(c)
                /\ Len(task_history') = Len(task_history) + 1 ) =>
                  progress[running[c].progress_id].next_review_at <= now ]_vars

\* A tick of learner 1 selected the row, and an answer committed since has
\* moved the row's next review past now: the answer handler has finished,
\* the tick is about to issue a task for that row.
C23_SelectedRowNoLongerDue ==
    /\ GradesInFlight(1) = {}
    /\ \E c \in TicksInFlight(1) :
          /\ running[c].pc = "issue"
          /\ progress[running[c].progress_id].total_answers_count = 1
          /\ progress[running[c].progress_id].next_review_at > now

\* C24: an outcome once stored in a task row is never written again: every
\* step leaves a task row whose outcome is set as it is.  (Checked under
\* SpecAsync.)
C24_OutcomeWrittenOnce ==
    [][ \A t \in DOMAIN task_history :
            OutcomeSet(task_history[t]) =>
                task_history'[t] = task_history[t] ]_vars

\* Task 1 carries an outcome and a second handler that passed the
\* answered-already check for it is about to store its own.
C24_SecondWriterPastCheck ==
    /\ OutcomeSet(task_history[1])
    /\ \E c \in Coroutines :
          /\ running[c].kind = "choice"
          /\ running[c].pc = "store"
          /\ running[c].task_id = 1

\* C29: every commit of update_word_progress leaves the stored
\* total_answers_count one above what was stored before it, so that two
\* commits raise it by 2.  (Checked under SpecAsync.)
C29_EveryCommitCounts ==
    [][ \A c \in Coroutines :
            update_word_progress_commit(c) =>
                progress'[running[c].progress_id].total_answers_count =
                    progress[running[c].progress_id].total_answers_count + 1 ]_vars

\* Two tasks of learner 1 about the same word carry an outcome, no handler is
\* in flight, and the row counts one answer.
C29_TwoGradesOneCounted ==
    /\ running = NoneRunning
    /\ Len(task_history) = 2
    /\ \A t \in DOMAIN task_history :
          /\ OutcomeSet(task_history[t])
          /\ task_history[t].user_id = 1
          /\ task_history[t].word_id = progress[1].word_id
    /\ progress[1].total_answers_count = 1

\* C30: "Went to sleep" leaves every coroutine in flight as it is, clears the
\* active flag and leaves no job of the learner.  A tick past its checks
\* stores its task whatever the active flag says by then: its issuing step
\* has an outcome that appends a task row and sends the question, and the
\* tick's later steps read no users row.  A tick starts (goes past its checks)
\* only in a step that finds the learner active; a firing of the job of a
\* learner who is not active starts nothing and stores nothing.  (Checked
\* under SpecAwake.)
C30_SleepCancelsOnlyFutureTicks ==
    [][ \A u \in Users :
          /\ cmd_sleep(u) =>
                /\ running' = running
                /\ JobsOf(jobs', u) = {}
                /\ ~users'[u].is_active
          /\ \A c \in TicksInFlight(u) :
                running[c].pc = "issue" =>
                    \E tt \in DrawnTaskTypes :
                        \E r \in IssueTask(u, running[c].progress_id,
                                           tt, "ok", "ok") :
                            /\ Len(r.task_history) = Len(task_history) + 1
                            /\ r.messages = << Msg(u, "task") >>
          /\ Cardinality({ c \in Coroutines :
                             /\ running'[c].kind = "tick"
                             /\ running'[c].user_id = u }) >
                Cardinality(TicksInFlight(u)) => users[u].is_active
          /\ (JobFire_begin(u) /\ ~users[u].is_active) =>
                /\ running' = running
                /\ task_history' = task_history ]_vars

\* Learner 1 went to sleep while a tick had selected a row: the learner is
\* not active, no job is registered, and the tick is about to issue.
C30_AsleepWithTickInFlight ==
    /\ ~users[1].is_active
    /\ JobsOf(jobs, 1) = {}
    /\ \E c \in TicksInFlight(1) : running[c].pc = "issue"

\* str.lower() on the option strings.
Lower(s) == IF s = "Cat" THEN "cat" ELSE s

\* C31: pressing option i of an unanswered button task records the outcome
\* correct exactly when the text of option i equals the text of the task's
\* correct option, letter case ignored; the outcome depends on the task and
\* the index alone.  (Checked under SpecChoice.)
C31_ChoiceGradedByOptionText ==
    \A t \in DOMAIN task_history, i \in OptionIndexes :
        ( /\ task_history[t].is_correct = None
          /\ ~IsTranslation(task_history[t].task_type) ) =>
            LET task == task_history[t]
                r == choice_answer_result(task.user_id, t, i)
            IN  (r.task_history[t].is_correct = True) <=>
                    ( Lower(task.options[i + 1]) =
                      Lower(task.options[task.correct_index + 1]) )

\* The learner pressed an option whose text is the correct option's text up
\* to letter case, at the other index; the stored outcome is incorrect and
\* the row took the penalty path.
C31_RightTextWrongIndex ==
    /\ task_history[1].is_correct = False
    /\ Lower(task_history[1].user_answer) =
          Lower(task_history[1].options[task_history[1].correct_index + 1])
    /\ progress[1].total_answers_count = 1
    /\ progress[1].correct_answers_count = 0

\* C32: in every reachable state no learner has two progress rows for the
\* same word.  (Checked under SpecPool.)
C32_OneRowPerLearnerAndWord ==
    \A u \in Users, w \in DOMAIN words :
        Cardinality(get_user_word_progress(progress, u, w)) <= 1

\* Both handlers have finished and learner 1 holds two rows for the word
\* the learner added.
C32_TwoRowsForAddedWord ==
    /\ running = NoneRunning
    /\ \E w \in DOMAIN words :
          /\ words[w] \in TypedWords
          /\ Cardinality(get_user_word_progress(progress, 1, w)) = 2

\* C33: an answer button pressed by a user who does not own the task is
\* turned away: the handler leaves every task row and every progress row as
\* it was.  (Checked under SpecGrade.)
C33_ForeignTaskRejected ==
    \A u \in Users, t \in DOMAIN task_history, i \in OptionIndexes :
        task_history[t].user_id # u =>
            /\ choice_answer_result(u, t, i).task_history = task_history
            /\ choice_answer_result(u, t, i).progress = progress

\* User 2 pressed the wrong option of learner 1's button task: the task is
\* stored as answered incorrectly, the learner's row never saw an answer,
\* and the learner's text task is the only pending one.
C33_ForeignWrongAnswerStored ==
    /\ users[2].exists
    /\ task_history[1].user_id = 1
    /\ task_history[1].is_correct = False
    /\ task_history[1].user_answer = "wrong"
    /\ PendingTasks(1) = {2}
    /\ progress[1].last_reviewed_at = NULL

\* "I woke up" handlers (with the tick they await) and "Went to sleep"
\* handlers of learner u in flight.
TogglesInFlight(u) ==
    { c \in Coroutines :
        /\ running[c].user_id = u
        /\ \/ running[c].kind \in { "wake_up", "sleep" }
           \/ running[c].kind = "tick" /\ ~running[c].by_job }

\* C34: in every reachable state in which no "I woke up" and no "Went to
\* sleep" of a learner is in flight, the learner is active exactly when a job
\* of the learner is registered.  (Checked under SpecToggle.)
C34_ActiveIffJobRegistered ==
    \A u \in Users :
        TogglesInFlight(u) = {} =>
            (users[u].is_active <=> JobsOf(jobs, u) # {})

\* Both handlers have finished: learner 1 is not active and the job that
\* "I woke up" registered is in the job store.
C34_AsleepWithJobRegistered ==
    /\ running = NoneRunning
    /\ ~users[1].is_active
    /\ JobsOf(jobs, 1) =
          { [id |-> job_id(1), interval_minutes |-> 30, next_run_time |-> 1] }

\* C35: a tick that ends with the error notice has stored no task: every
\* outcome of a tick whose message is the notice leaves task_history as it
\* was.  (Checked under SpecTick.)
C35_ErrorNoticeMeansNoTask ==
    \A u \in Users :
        \A r \in send_task_to_user(u, users) :
            r.messages = << Msg(u, "generation_error") >> =>
                r.task_history = task_history

\* Learner 1 is active, outside "do not disturb", with a due row at instant
\* 1, and the tick has an outcome that sends the error notice and leaves one
\* more pending task of the learner.
C35_NoticeWithStoredTask ==
    /\ now = 1
    /\ Eligible(1)
    /\ DueRows(1) # {}
    /\ \E r \in send_task_to_user(1, users) :
          /\ r.messages = << Msg(1, "generation_error") >>
          /\ Issues(r, 1)

\* C36: whenever learner 1 is active with a job registered, has a due row
\* and no task yet, a task of the learner is stored later on.  (Checked
\* under SpecLive, whose learner stays active and whose "do not disturb"
\* window, if any, runs out.)
C36_DueWordEventuallyIssued ==
    ( /\ users[1].is_active
      /\ JobsOf(jobs, 1) # {}
      /\ DueRows(1) # {}
      /\ task_history = << >> )
        ~> ( /\ task_history # << >>
             /\ task_history[1].user_id = 1
             /\ task_history[1].word_id = progress[1].word_id )

\* The first task was stored after the "do not disturb" window had run out
\* and the clock had reached its last reading: the window's end and the
\* row's due time are at or before now, the job's next run is ahead.
C36_IssuedAfterWindow ==
    /\ now = MaxTime
    /\ users[1].do_not_disturb_until # NULL
    /\ users[1].do_not_disturb_until <= now
    /\ Len(task_history) = 1
    /\ task_history[1].is_correct = None
    /\ \E j \in JobsOf(jobs, 1) : j.next_run_time > now

====
